---------------------------- MODULE Spec2Model ----------------------------
(***************************************************************************)
(* Model of src/app.py: a Streamlit inventory dashboard over two Google    *)
(* Sheets worksheets.  "Sheet1" is the inventory table, "Sheet2" the audit *)
(* log.  Every browser session (operator) runs the script top to bottom in *)
(* its own thread; the st.cache_data memo of load_data is shared by all    *)
(* sessions of the server.  One script run is modelled as a sequence of    *)
(* steps, one per store access, so that runs of different sessions         *)
(* interleave between store accesses.                                      *)
(*                                                                         *)
(* conn.read and conn.update belong to streamlit_gsheets: conn.read is     *)
(* taken to return the worksheet's rows or to raise, conn.update to        *)
(* replace the worksheet by the given frame or to raise and leave it as it *)
(* was.                                                                    *)
(*                                                                         *)
(* The Date column of a log entry (app.py:47) is wall-clock text and is    *)
(* left out of the rows; columns other than the ones named by the code     *)
(* are not modelled.                                                       *)
(***************************************************************************)
EXTENDS Integers, Sequences, FiniteSets, TLC

VARIABLES
    sheet1,            \* worksheet "Sheet1" in the store: raw rows
    sheet2,            \* worksheet "Sheet2" in the store: raw log rows
    cache,             \* st.cache_data memo of load_data, per sheet name
    pc,                \* per session: position of its script run
    view_log,          \* per session: st.session_state.view_log
    existing_data,     \* per session: the frame existing_data (app.py:63)
    log_data,          \* per session: the frame log_data (app.py:43, 160)
    selected_product_to_update,  \* per session (app.py:108)
    selected_size_to_update,     \* per session (app.py:112)
    current_quantity,  \* per session (app.py:115)
    action,            \* per session: the radio (app.py:124)
    entered,           \* per session: the number the operator typed
    quantity,          \* per session: value of st.number_input (app.py:128/130)
    updates            \* number of updates started so far (button pressed, quantity > 0)

vars == << sheet1, sheet2, cache, pc, view_log, existing_data, log_data,
           selected_product_to_update, selected_size_to_update,
           current_quantity, action, entered, quantity, updates >>

sessionVars == << view_log, existing_data, log_data,
                  selected_product_to_update, selected_size_to_update,
                  current_quantity, action, entered, quantity >>

inputVars == << selected_product_to_update, selected_size_to_update,
                current_quantity, action, entered, quantity >>

-----------------------------------------------------------------------------
(* Bounds of the model *)

\* largest number an operator types into the quantity box
MaxEntered == 1

\* updates after which no further update is started
MaxUpdates == 2

\* the browser sessions running the script
Sessions == {"op1", "op2"}

SheetNames == {"Sheet1", "Sheet2"}

Actions == {"Add", "Remove"}

-----------------------------------------------------------------------------
(* Cells and rows of the store *)

IntCell(n) == [k |-> "int", v |-> n]
TextCell == [k |-> "text", v |-> 0]     \* non-numeric text such as "N/A"
NaNCell == [k |-> "nan", v |-> 0]       \* an empty cell

\* a raw row of Sheet1; "" is an empty PRODUCT or SIZE cell
RawRow(p, s, c) == [PRODUCT |-> p, SIZE |-> s, QUANTITY |-> c]

EmptyRow == RawRow("", "", NaNCell)

\* a raw row of Sheet2
LogRow(p, s, c, a) == [Product |-> p, Size |-> s, Quantity |-> c, Action |-> a]

EmptyLogRow == LogRow("", "", NaNCell, "")

EmptyTable == << >>

\* data.dropna(how="all"): the rows that are not empty in every column
RECURSIVE DropNa(_, _)
DropNa(rows, empty) ==
    IF rows = << >> THEN << >>
    ELSE IF Head(rows) = empty
         THEN DropNa(Tail(rows), empty)
         ELSE << Head(rows) >> \o DropNa(Tail(rows), empty)

\* pd.to_numeric(errors='coerce'): a number, or NaN for anything else
ToNumeric(c) == IF c.k = "int" THEN c ELSE NaNCell

\* .fillna(0)
FillNa0(c) == IF c.k = "nan" THEN IntCell(0) ELSE c

\* .astype(int)
AsTypeInt(c) == c.v

\* variant: the quantity clamped at 0
CoerceQuantityClamped(c) ==
    IF AsTypeInt(FillNa0(ToNumeric(c))) < 0 THEN 0
    ELSE AsTypeInt(FillNa0(ToNumeric(c)))

\* pd.to_numeric(data['QUANTITY'], errors='coerce').fillna(0).astype(int)
CoerceQuantity(c) == AsTypeInt(FillNa0(ToNumeric(c)))

\* what load_data makes of the rows conn.read returned
ProcessSheet(name, rows) ==
    IF name = "Sheet1"
    THEN LET kept == DropNa(rows, EmptyRow)
         IN  [i \in 1..Len(kept) |->
                [kept[i] EXCEPT !.QUANTITY = CoerceQuantity(kept[i].QUANTITY)]]
    ELSE DropNa(rows, EmptyLogRow)

\* the rows conn.update sends for the frame existing_data: integer cells
ToSheet(frame) ==
    [i \in 1..Len(frame) |-> [frame[i] EXCEPT !.QUANTITY = IntCell(frame[i].QUANTITY)]]

\* variant: the rows are added below the worksheet's rows
StoreUpdateAppend(old, new) == old \o new

\* conn.update(worksheet=..., data=...): the worksheet becomes the given rows
StoreUpdate(old, new) == new

-----------------------------------------------------------------------------
(* The st.cache_data memo of load_data (ttl=5): one entry per sheet name.   *)
(* A function that returns normally is memoized whatever it returns, so    *)
(* the empty frame of the except branch (app.py:26-28) is memoized too.    *)
(* The clock is not modelled: that the 5 seconds of an entry have passed   *)
(* is the step Expire, which may come at any moment after the entry was    *)
(* stored.                                                                 *)

NoEntry == [data |-> EmptyTable, valid |-> FALSE]

Hit(name) == cache[name].valid

Store(name) == IF name = "Sheet1" THEN sheet1 ELSE sheet2

\* the frame load_data(name) returns; ok: conn.read did not raise
LoadData(name, ok) ==
    IF Hit(name) THEN cache[name].data
    ELSE IF ok THEN ProcessSheet(name, Store(name))
    ELSE EmptyTable

\* the memo after load_data(name)
CacheAfterLoad(name, ok) ==
    IF Hit(name) THEN cache
    ELSE [cache EXCEPT ![name] = [data |-> LoadData(name, ok), valid |-> TRUE]]

\* variant: the memo is not cleared
CacheKept == cache

\* st.cache_data.clear()
CacheClear == [n \in SheetNames |-> NoEntry]

\* the ttl of the entry of sheet n has passed
Expire(n) ==
    /\ Hit(n)
    /\ cache' = [cache EXCEPT ![n] = NoEntry]
    /\ UNCHANGED << sheet1, sheet2, pc, sessionVars, updates >>

-----------------------------------------------------------------------------
(* Pure parts of the sidebar (app.py:104-143) *)

Matches(row, p, s) == row.PRODUCT = p /\ row.SIZE = s

\* variant: .values[-1]
LastMatch(frame, p, s) ==
    CHOOSE i \in 1..Len(frame) :
        /\ Matches(frame[i], p, s)
        /\ \A j \in (i + 1)..Len(frame) : ~Matches(frame[j], p, s)

\* existing_data.loc[(PRODUCT == p) & (SIZE == s), 'QUANTITY'].values[0]
FirstMatch(frame, p, s) ==
    CHOOSE i \in 1..Len(frame) :
        /\ Matches(frame[i], p, s)
        /\ \A j \in 1..(i - 1) : ~Matches(frame[j], p, s)

CurrentQuantity(frame, p, s) == frame[FirstMatch(frame, p, s)].QUANTITY

\* variant: the Remove box without max_value
QuantityInputNoMax(act, cur, typed) == IF typed >= 0 THEN typed ELSE 0

\* st.number_input(min_value=0, [max_value=current_quantity,] value=0):
\* a typed number outside the box's range is not taken, the box keeps value=0
\* (with current_quantity < 0 the Remove box has no valid value at all)
QuantityInput(act, cur, typed) ==
    IF act = "Add"
    THEN IF typed >= 0 THEN typed ELSE 0
    ELSE IF typed >= 0 /\ typed <= cur THEN typed ELSE 0

\* variant: the Remove branch adds
NewQuantityAdds(act, cur, q) == cur + q

\* new_quantity (app.py:135-139)
NewQuantity(act, cur, q) == IF act = "Add" THEN cur + q ELSE cur - q

\* variant: only the first row of the mask is assigned
MaskAssignFirstOnly(frame, p, s, nq) ==
    [i \in 1..Len(frame) |->
        IF Matches(frame[i], p, s) /\ \A j \in 1..(i - 1) : ~Matches(frame[j], p, s)
        THEN [frame[i] EXCEPT !.QUANTITY = nq]
        ELSE frame[i]]

\* mask = (PRODUCT == p) & (SIZE == s); existing_data.loc[mask, 'QUANTITY'] = nq
MaskAssign(frame, p, s, nq) ==
    [i \in 1..Len(frame) |->
        IF Matches(frame[i], p, s)
        THEN [frame[i] EXCEPT !.QUANTITY = nq]
        ELSE frame[i]]

\* variant: the entry carries the opposite direction
NewEntryFlipped(p, s, q, act) ==
    LogRow(p, s, IntCell(q), IF act = "Add" THEN "Remove" ELSE "Add")

\* new_entry of log_inventory_change, as a row of Sheet2
NewEntry(p, s, q, act) == LogRow(p, s, IntCell(q), act)

\* pd.concat([log_data, new_entry], ignore_index=True)
Concat(frame, entry) == Append(frame, entry)

\* variant: the exception of conn.update is swallowed
AfterInventoryUpdateAlways(ok) == "log_read"

\* where the run goes after conn.update(worksheet="Sheet1") (app.py:144-147):
\* an exception of conn.update is not caught and ends the script run
AfterInventoryUpdate(ok) == IF ok THEN "log_read" ELSE "idle"

-----------------------------------------------------------------------------
(* Initial states *)

\* the inventory worksheet before the first run: non-negative quantities,
\* an empty spreadsheet row, and in the second sheet a duplicated pair
InitSheets ==
    { << RawRow("Shirt", "M", IntCell(1)), EmptyRow,
         RawRow("Cap", "S", IntCell(0)) >>,
      << RawRow("Shirt", "M", IntCell(1)), RawRow("Cap", "S", IntCell(0)),
         RawRow("Shirt", "M", IntCell(0)) >> }

\* the log worksheet before the first run
InitLog == << LogRow("Cap", "S", IntCell(1), "Add") >>

NoInput(f) == [o \in Sessions |-> f]

InitSessions ==
    /\ cache = [n \in SheetNames |-> NoEntry]
    /\ pc = NoInput("idle")
    /\ view_log = NoInput(FALSE)
    /\ existing_data = NoInput(EmptyTable)
    /\ log_data = NoInput(EmptyTable)
    /\ selected_product_to_update = NoInput("")
    /\ selected_size_to_update = NoInput("")
    /\ current_quantity = NoInput(0)
    /\ action = NoInput("Add")
    /\ entered = NoInput(0)
    /\ quantity = NoInput(0)
    /\ updates = 0

Init ==
    /\ sheet1 \in InitSheets
    /\ sheet2 = InitLog
    /\ InitSessions

-----------------------------------------------------------------------------
(* One script run of session o.  The frames and widget values are locals   *)
(* of the run: they are set during the run and gone when it ends.          *)

\* the run of session o ends: back to "idle", its locals dropped
EndRun(o) ==
    /\ pc' = [pc EXCEPT ![o] = "idle"]
    /\ existing_data' = [existing_data EXCEPT ![o] = EmptyTable]
    /\ log_data' = [log_data EXCEPT ![o] = EmptyTable]
    /\ selected_product_to_update' = [selected_product_to_update EXCEPT ![o] = ""]
    /\ selected_size_to_update' = [selected_size_to_update EXCEPT ![o] = ""]
    /\ current_quantity' = [current_quantity EXCEPT ![o] = 0]
    /\ action' = [action EXCEPT ![o] = "Add"]
    /\ entered' = [entered EXCEPT ![o] = 0]
    /\ quantity' = [quantity EXCEPT ![o] = 0]

\* A run starts with existing_data = load_data() (app.py:63) and goes on
\* through the sidebar, which touches nothing but locals of the run, up to
\* its next access to the store or the memo.  frame is what load_data gave.

\* app.py:81 on the empty frame of a failed read: the frame has no PRODUCT
\* column, the inventory view raises KeyError and the run ends
SidebarRaises(view, frame) == ~view /\ frame = EmptyTable

\* a run started by a widget other than the two buttons, or by st.rerun()
RunNoClick(o, ok) ==
    /\ pc[o] = "idle"
    /\ cache' = CacheAfterLoad("Sheet1", ok)
    /\ IF view_log[o]
       THEN /\ pc' = [pc EXCEPT ![o] = "render_log"]
            /\ existing_data' = [existing_data EXCEPT ![o] = LoadData("Sheet1", ok)]
            /\ UNCHANGED << log_data, inputVars >>
       ELSE EndRun(o)
    /\ UNCHANGED << sheet1, sheet2, view_log, updates >>

RunNoClickOk(o) == RunNoClick(o, TRUE)

RunNoClickFail(o) == ~Hit("Sheet1") /\ RunNoClick(o, FALSE)

\* a run started by the toggle button (app.py:74-75)
RunToggle(o, ok) ==
    /\ pc[o] = "idle"
    /\ cache' = CacheAfterLoad("Sheet1", ok)
    /\ view_log' = [view_log EXCEPT ![o] = ~view_log[o]]
    /\ IF ~view_log[o]
       THEN /\ pc' = [pc EXCEPT ![o] = "render_log"]
            /\ existing_data' = [existing_data EXCEPT ![o] = LoadData("Sheet1", ok)]
            /\ UNCHANGED << log_data, inputVars >>
       ELSE EndRun(o)
    /\ UNCHANGED << sheet1, sheet2, updates >>

RunToggleOk(o) == RunToggle(o, TRUE)

RunToggleFail(o) == ~Hit("Sheet1") /\ RunToggle(o, FALSE)

\* a run started by the Update Inventory button (app.py:104-141, 154-155)
\* with row i's pair selected, direction a chosen and the number n typed;
\* the read of Sheet1 is served by the memo or succeeds
RunClick(o) ==
    /\ pc[o] = "idle"
    /\ ~view_log[o]
    /\ ~SidebarRaises(view_log[o], LoadData("Sheet1", TRUE))
    /\ cache' = CacheAfterLoad("Sheet1", TRUE)
    /\ existing_data' = [existing_data EXCEPT ![o] = LoadData("Sheet1", TRUE)]
    /\ \E i \in 1..Len(LoadData("Sheet1", TRUE)), a \in Actions, n \in 0..MaxEntered :
        LET frame == LoadData("Sheet1", TRUE)
            p == frame[i].PRODUCT
            s == frame[i].SIZE
            cur == CurrentQuantity(frame, p, s)
            q == QuantityInput(a, cur, n)
        IN  /\ q > 0 => updates < MaxUpdates
            /\ selected_product_to_update' =
                   [selected_product_to_update EXCEPT ![o] = p]
            /\ selected_size_to_update' = [selected_size_to_update EXCEPT ![o] = s]
            /\ current_quantity' = [current_quantity EXCEPT ![o] = cur]
            /\ action' = [action EXCEPT ![o] = a]
            /\ entered' = [entered EXCEPT ![o] = n]
            /\ quantity' = [quantity EXCEPT ![o] = q]
            /\ pc' = [pc EXCEPT ![o] = IF q > 0 THEN "update" ELSE "warned"]
            /\ updates' = IF q > 0 THEN updates + 1 ELSE updates
    /\ UNCHANGED << sheet1, sheet2, view_log, log_data >>

\* st.warning("Please enter a quantity greater than 0.") and the main area
\* of the inventory view (app.py:154-155, 162-164): the run ends
Warned(o) ==
    /\ pc[o] = "warned"
    /\ EndRun(o)
    /\ UNCHANGED << sheet1, sheet2, cache, view_log, updates >>

\* the frame with the mask assigned (app.py:142-143)
Mutated(o) ==
    MaskAssign(existing_data[o], selected_product_to_update[o],
               selected_size_to_update[o],
               NewQuantity(action[o], current_quantity[o], quantity[o]))

\* app.py:142-144: assign the mask, conn.update(worksheet="Sheet1") succeeds
UpdateInventoryOk(o) ==
    /\ pc[o] = "update"
    /\ existing_data' = [existing_data EXCEPT ![o] = Mutated(o)]
    /\ sheet1' = StoreUpdate(sheet1, ToSheet(Mutated(o)))
    /\ pc' = [pc EXCEPT ![o] = AfterInventoryUpdate(TRUE)]
    /\ UNCHANGED << sheet2, cache, view_log, log_data, inputVars, updates >>

\* app.py:142-144: conn.update(worksheet="Sheet1") raises
UpdateInventoryFail(o) ==
    /\ pc[o] = "update"
    /\ IF AfterInventoryUpdate(FALSE) = "idle"
       THEN EndRun(o)
       ELSE /\ pc' = [pc EXCEPT ![o] = AfterInventoryUpdate(FALSE)]
            /\ existing_data' = [existing_data EXCEPT ![o] = Mutated(o)]
            /\ UNCHANGED << log_data, inputVars >>
    /\ UNCHANGED << sheet1, sheet2, cache, view_log, updates >>

\* log_inventory_change: log_data = load_data("Sheet2") (app.py:43)
LogRead(o, ok) ==
    /\ pc[o] = "log_read"
    /\ log_data' = [log_data EXCEPT ![o] = LoadData("Sheet2", ok)]
    /\ cache' = CacheAfterLoad("Sheet2", ok)
    /\ pc' = [pc EXCEPT ![o] = "log_write"]
    /\ UNCHANGED << sheet1, sheet2, view_log, existing_data, inputVars, updates >>

LogReadOk(o) == LogRead(o, TRUE)

LogReadFail(o) == ~Hit("Sheet2") /\ LogRead(o, FALSE)

\* updated_log_data (app.py:46-55)
UpdatedLogData(o) ==
    Concat(log_data[o],
           NewEntry(selected_product_to_update[o], selected_size_to_update[o],
                    quantity[o], action[o]))

\* conn.update(worksheet="Sheet2") (app.py:58); its exception is caught (59-60)
LogWrite(o, ok) ==
    /\ pc[o] = "log_write"
    /\ sheet2' = IF ok THEN StoreUpdate(sheet2, UpdatedLogData(o)) ELSE sheet2
    /\ pc' = [pc EXCEPT ![o] = "clear"]
    /\ UNCHANGED << sheet1, cache, sessionVars, updates >>

LogWriteOk(o) == LogWrite(o, TRUE)

LogWriteFail(o) == LogWrite(o, FALSE)

\* st.success(...); st.cache_data.clear() (app.py:149-150)
ClearCache(o) ==
    /\ pc[o] = "clear"
    /\ cache' = CacheClear
    /\ pc' = [pc EXCEPT ![o] = "reload"]
    /\ UNCHANGED << sheet1, sheet2, sessionVars, updates >>

\* existing_data = load_data() (app.py:151)
Reload(o, ok) ==
    /\ pc[o] = "reload"
    /\ existing_data' = [existing_data EXCEPT ![o] = LoadData("Sheet1", ok)]
    /\ cache' = CacheAfterLoad("Sheet1", ok)
    /\ pc' = [pc EXCEPT ![o] = "refresh"]
    /\ UNCHANGED << sheet1, sheet2, view_log, log_data, inputVars, updates >>

ReloadOk(o) == Reload(o, TRUE)

ReloadFail(o) == ~Hit("Sheet1") /\ Reload(o, FALSE)

\* refresh(): time.sleep(1); st.rerun() (app.py:153, 30-37) ends this run
Refresh(o) ==
    /\ pc[o] = "refresh"
    /\ EndRun(o)
    /\ UNCHANGED << sheet1, sheet2, cache, view_log, updates >>

\* main area, log view: log_data = load_data("Sheet2") (app.py:158-161)
RenderLog(o, ok) ==
    /\ pc[o] = "render_log"
    /\ cache' = CacheAfterLoad("Sheet2", ok)
    /\ EndRun(o)
    /\ UNCHANGED << sheet1, sheet2, view_log, updates >>

RenderLogOk(o) == RenderLog(o, TRUE)

RenderLogFail(o) == ~Hit("Sheet2") /\ RenderLog(o, FALSE)

-----------------------------------------------------------------------------
(* Specifications *)

\* the steps of a run in which no store access fails
RunOk(o) ==
    \/ RunNoClickOk(o)
    \/ RunToggleOk(o)
    \/ RunClick(o)
    \/ Warned(o)
    \/ UpdateInventoryOk(o)
    \/ LogReadOk(o)
    \/ LogWriteOk(o)
    \/ ClearCache(o)
    \/ ReloadOk(o)
    \/ Refresh(o)
    \/ RenderLogOk(o)

\* the steps in which a store access fails
RunFail(o) ==
    \/ RunNoClickFail(o)
    \/ RunToggleFail(o)
    \/ UpdateInventoryFail(o)
    \/ LogReadFail(o)
    \/ LogWriteFail(o)
    \/ ReloadFail(o)
    \/ RenderLogFail(o)

Next ==
    \/ \E n \in SheetNames : Expire(n)
    \/ \E o \in Sessions : RunOk(o) \/ RunFail(o)

\* every session, any interleaving, any store failure
Spec == Init /\ [][Next]_vars

\* one session, any store failure
NextOne ==
    \/ \E n \in SheetNames : Expire(n)
    \/ RunOk("op1")
    \/ RunFail("op1")

SpecOne == Init /\ [][NextOne]_vars

\* one session, no store access fails
NextSolo ==
    \/ \E n \in SheetNames : Expire(n)
    \/ RunOk("op1")

SpecSolo == Init /\ [][NextSolo]_vars

(* load_data alone, on worksheets holding any kind of cell *)

\* rows of a worksheet in InitLoad
MaxRows == 2

RawCells == { IntCell(-1), IntCell(0), IntCell(2), TextCell, NaNCell }

RawRows == { RawRow("Shirt", "M", c) : c \in RawCells } \cup { EmptyRow }

RawLogRows == { LogRow("Shirt", "M", c, "Add") : c \in { IntCell(-1), TextCell } }
                  \cup { EmptyLogRow }

Tables(rows) == UNION { [1..n -> rows] : n \in 0..MaxRows }

InitLoad ==
    /\ sheet1 \in Tables(RawRows)
    /\ sheet2 \in Tables(RawLogRows)
    /\ InitSessions

\* the runs of one session that only read: no update is started
NextLoad ==
    \/ \E n \in SheetNames : Expire(n)
    \/ RunNoClickOk("op1")
    \/ RunNoClickFail("op1")
    \/ RunToggleOk("op1")
    \/ RunToggleFail("op1")
    \/ RenderLogOk("op1")
    \/ RenderLogFail("op1")

SpecLoad == InitLoad /\ [][NextLoad]_vars

-----------------------------------------------------------------------------
(* Properties *)

\* the positions of a run after its inventory write and before its reload
PostWrite == {"log_read", "log_write", "clear", "reload"}

\* this step is a step of session o
Moved(o) == pc'[o] # pc[o]

\* this step is the successful inventory write of session o
Commits(o) == pc[o] = "update" /\ pc'[o] = "log_read"

\* (PRODUCT, SIZE) pairs are unique in the frame
UniquePairs(frame) ==
    \A i, j \in 1..Len(frame) :
        (frame[i].PRODUCT = frame[j].PRODUCT /\ frame[i].SIZE = frame[j].SIZE)
            => i = j

\* the row of session o's selection
Selected(o, row) ==
    /\ row.PRODUCT = selected_product_to_update[o]
    /\ row.SIZE = selected_size_to_update[o]

\* q + d for Add, q - d for Remove
Changed(o, q) == IF action[o] = "Add" THEN q + entered[o] ELSE q - entered[o]

IsPrefix(a, b) == Len(a) <= Len(b) /\ SubSeq(b, 1, Len(a)) = a

\* C1: when the table T a run read has unique (PRODUCT, SIZE) pairs, the
\* table a successful inventory write puts in Sheet1 is T with the selected
\* row's QUANTITY replaced by q + d (Add) or q - d (Remove): same rows, same
\* order, every other row as in T.
C1_WrittenTable ==
    [][\A o \in Sessions :
        (Commits(o) /\ UniquePairs(existing_data[o])) =>
            LET T == existing_data[o]
            IN  /\ Len(sheet1') = Len(T)
                /\ \A i \in 1..Len(T) :
                    sheet1'[i] =
                        RawRow(T[i].PRODUCT, T[i].SIZE,
                               IntCell(IF Selected(o, T[i])
                                       THEN Changed(o, T[i].QUANTITY)
                                       ELSE T[i].QUANTITY))]_vars

\* a Remove of d = q was accepted on a table of unique pairs and written
C1_Witness ==
    \E o \in Sessions :
        /\ pc[o] = "log_read"
        /\ UniquePairs(existing_data[o])
        /\ Len(existing_data[o]) > 1
        /\ action[o] = "Remove"
        /\ entered[o] = current_quantity[o]
        /\ sheet1 = ToSheet(existing_data[o])

\* the typed delta of session o is one the claim accepts
ValidDelta(o) ==
    /\ entered[o] > 0
    /\ action[o] = "Remove" => entered[o] <= current_quantity[o]

\* C2: a step that writes Sheet1 or Sheet2 is a step of a run whose typed
\* delta is > 0 and, for Remove, at most the currentQuantity of the selected
\* row in the table the run read; a run with delta = 0, or a Remove with
\* delta above currentQuantity, is rejected and never reaches a write.
C2_WritesOnlyForValidDelta ==
    /\ [](\A o \in Sessions :
            /\ pc[o] = "update" =>
                 current_quantity[o] =
                     CurrentQuantity(existing_data[o],
                                     selected_product_to_update[o],
                                     selected_size_to_update[o])
            /\ pc[o] \in {"update"} \cup PostWrite => ValidDelta(o)
            /\ pc[o] = "warned" => ~ValidDelta(o))
    /\ [][(sheet1' # sheet1 \/ sheet2' # sheet2) =>
            \E o \in Sessions :
                Moved(o) /\ pc[o] \in {"update", "log_write"} /\ ValidDelta(o)]_vars

\* a Remove above the current quantity was rejected, nothing written,
\* nothing logged
C2_Witness ==
    \E o \in Sessions :
        /\ pc[o] = "warned"
        /\ action[o] = "Remove"
        /\ entered[o] > current_quantity[o]
        /\ sheet1 \in InitSheets
        /\ sheet2 = InitLog

\* C3: the log is append-only: every step leaves the previous contents of
\* Sheet2 in place as a prefix of the new contents.
C3_LogAppendOnly == [][IsPrefix(sheet2, sheet2')]_vars

\* C4: one session, no store failure: outside the stretch between an
\* inventory write and its log write, Sheet2 is the original log followed by
\* one entry per update, and each write of Sheet2 appends to its previous
\* contents the entry with the product, size, typed delta and direction of
\* the update being made.
C4_LogGrowsByOnePerUpdate ==
    /\ [](/\ IsPrefix(InitLog, sheet2)
          /\ Len(sheet2) = Len(InitLog) + updates
                 - (IF pc["op1"] \in {"update", "log_read", "log_write"}
                    THEN 1 ELSE 0))
    /\ [][sheet2' # sheet2 =>
            sheet2' = Append(sheet2,
                             LogRow(selected_product_to_update["op1"],
                                    selected_size_to_update["op1"],
                                    IntCell(entered["op1"]), action["op1"]))]_vars

\* the second update is about to read the log, and the memo holds it
C4_Witness ==
    /\ pc["op1"] = "log_read"
    /\ Hit("Sheet2")
    /\ updates = 2
    /\ Len(sheet2) = Len(InitLog) + 1

\* C5: a run reaches its log append only through a step that wrote its
\* frame to Sheet1; a failed inventory write ends the run; Sheet2 is read
\* for the append and written only after that.
C5_InventoryWriteBeforeLog ==
    [][/\ \A o \in Sessions :
            /\ (pc'[o] = "log_read" /\ Moved(o)) =>
                   (pc[o] = "update" /\ sheet1' = ToSheet(existing_data'[o]))
            /\ (pc'[o] = "log_write" /\ Moved(o)) => pc[o] = "log_read"
            /\ (pc[o] = "update" /\ Moved(o) /\ pc'[o] # "log_read") =>
                   (pc'[o] = "idle" /\ sheet2' = sheet2 /\ cache' = cache)
       /\ sheet2' # sheet2 =>
            \E o \in Sessions : pc[o] = "log_write" /\ pc'[o] = "clear"]_vars

\* one update was started and ended with neither sheet written: its
\* inventory write failed and the log was not touched
C5_Witness ==
    /\ updates = 1
    /\ \A o \in Sessions : pc[o] = "idle"
    /\ sheet1 \in InitSheets
    /\ sheet2 = InitLog
    /\ ~Hit("Sheet2")

\* C6 as stated: the read that follows a successful inventory write returns
\* the written table.
C6_NextReadReturnsWritten ==
    [][\A o \in Sessions :
        (pc[o] = "reload" /\ Moved(o)) => existing_data'[o] = existing_data[o]]_vars

\* C6 amended: after a successful inventory write Sheet1 holds the written
\* table through the log append, whether it succeeds or fails, and the
\* reload returns the written table unless that read fails, in which case
\* it returns the empty table; it never returns a table read before the
\* write.
C6_WrittenTableStays ==
    /\ [](\A o \in Sessions :
            pc[o] \in PostWrite => sheet1 = ToSheet(existing_data[o]))
    /\ [][\A o \in Sessions :
            (pc[o] = "reload" /\ Moved(o)) =>
                existing_data'[o] \in {existing_data[o], EmptyTable}]_vars

\* the log write failed (Sheet2 is still the original log), the reload
\* succeeded and returned the table in Sheet1, which is not the initial one
C6_Witness ==
    \E o \in Sessions :
        /\ pc[o] = "refresh"
        /\ sheet2 = InitLog
        /\ existing_data[o] # EmptyTable
        /\ sheet1 = ToSheet(existing_data[o])
        /\ sheet1 \notin InitSheets
        /\ CurrentQuantity(existing_data[o], selected_product_to_update[o],
                           selected_size_to_update[o])
               = Changed(o, current_quantity[o])

\* C7: every successful inventory write replaces the whole of Sheet1 by the
\* writer's own frame, whatever Sheet1 held: last write wins on the table.
C7_LastWriteWins ==
    [][\A o \in Sessions : Commits(o) => sheet1' = ToSheet(existing_data'[o])]_vars

\* two sessions updated different rows; Sheet1 is the second writer's table
\* and holds the first writer's row at its old quantity: the change is lost
C7_Witness ==
    \E o1, o2 \in Sessions :
        /\ o1 # o2
        /\ pc[o1] \in PostWrite
        /\ pc[o2] \in PostWrite
        /\ ~Selected(o2, [PRODUCT |-> selected_product_to_update[o1],
                          SIZE |-> selected_size_to_update[o1]])
        /\ sheet1 = ToSheet(existing_data[o2])
        /\ sheet1 # ToSheet(existing_data[o1])
        /\ CurrentQuantity(existing_data[o2], selected_product_to_update[o1],
                           selected_size_to_update[o1]) = current_quantity[o1]
        /\ CurrentQuantity(existing_data[o1], selected_product_to_update[o1],
                           selected_size_to_update[o1]) # current_quantity[o1]

\* the frames load_data("Sheet1") has returned and that are still held
InventoryFrames ==
    { cache["Sheet1"].data } \cup { existing_data[o] : o \in Sessions }

NotEmptyRow(r) == r # EmptyRow

NotEmptyLogRow(r) == r # EmptyLogRow

\* C8 as stated: every QUANTITY a read of Sheet1 returns is a non-negative
\* integer.
C8_QuantityNonNegative ==
    \A frame \in InventoryFrames :
        \A i \in 1..Len(frame) : frame[i].QUANTITY \in Nat

\* C8 amended: every QUANTITY a read of Sheet1 returns is an integer: the
\* source integer itself, of either sign, and 0 for non-numeric text and
\* for a missing value; a read of Sheet2 returns the cells as they are.
C8_QuantityCoerced ==
    /\ \A frame \in InventoryFrames :
        frame # EmptyTable =>
            LET src == SelectSeq(sheet1, NotEmptyRow)
            IN  /\ Len(frame) = Len(src)
                /\ \A i \in 1..Len(src) :
                    /\ frame[i].QUANTITY \in Int
                    /\ frame[i].QUANTITY =
                           (IF src[i].QUANTITY.k = "int"
                            THEN src[i].QUANTITY.v ELSE 0)
    /\ cache["Sheet2"].data \in {EmptyTable, SelectSeq(sheet2, NotEmptyLogRow)}

\* a read returned 0 for a text cell and -1 for the cell -1, and the log
\* was read with its text cell as it is
C8_Witness ==
    /\ Hit("Sheet1")
    /\ Len(sheet1) = 2
    /\ sheet1[1].QUANTITY = TextCell
    /\ sheet1[2].QUANTITY = IntCell(-1)
    /\ Len(cache["Sheet1"].data) = 2
    /\ cache["Sheet1"].data[1].QUANTITY = 0
    /\ cache["Sheet1"].data[2].QUANTITY = -1
    /\ Hit("Sheet2")
    /\ Len(cache["Sheet2"].data) = 1
    /\ cache["Sheet2"].data[1].Quantity = TextCell

\* the first row of the frame with session o's selection
IsFirstSelected(o, frame, i) ==
    /\ Selected(o, frame[i])
    /\ \A j \in 1..(i - 1) : ~Selected(o, frame[j])

\* C9 as stated: with a duplicated pair selected, only the first matching
\* row is replaced; every other row, the later duplicates too, is written
\* back unchanged.
C9_OnlyFirstMatchReplaced ==
    [][\A o \in Sessions :
        Commits(o) =>
            LET T == existing_data[o]
            IN  \A i \in 1..Len(T) :
                    sheet1'[i].QUANTITY =
                        IntCell(IF IsFirstSelected(o, T, i)
                                THEN Changed(o, current_quantity[o])
                                ELSE T[i].QUANTITY)]_vars

\* C9 amended: currentQuantity is the first matching row's, and every row
\* with the selected pair gets the new quantity; the rows with another pair
\* are written back unchanged.
C9_AllMatchesReplaced ==
    /\ [](\A o \in Sessions :
            pc[o] = "update" =>
                \E i \in 1..Len(existing_data[o]) :
                    /\ IsFirstSelected(o, existing_data[o], i)
                    /\ current_quantity[o] = existing_data[o][i].QUANTITY)
    /\ [][\A o \in Sessions :
            Commits(o) =>
                LET T == existing_data[o]
                IN  /\ Len(sheet1') = Len(T)
                    /\ \A i \in 1..Len(T) :
                        sheet1'[i] =
                            RawRow(T[i].PRODUCT, T[i].SIZE,
                                   IntCell(IF Selected(o, T[i])
                                           THEN Changed(o, current_quantity[o])
                                           ELSE T[i].QUANTITY))]_vars

\* an update of a duplicated pair was written: both rows hold the new
\* quantity, computed from the first row's
C9_Witness ==
    \E o \in Sessions :
        /\ pc[o] = "log_read"
        /\ ~UniquePairs(existing_data[o])
        /\ sheet1 = ToSheet(existing_data[o])
        /\ \A i \in 1..Len(sheet1) :
            Selected(o, sheet1[i]) =>
                sheet1[i].QUANTITY = IntCell(Changed(o, current_quantity[o]))
        /\ \E i \in 1..Len(sheet1) : ~Selected(o, sheet1[i])

\* C10: every QUANTITY cell of Sheet1 is a non-negative integer in every
\* reachable state.
C10_SheetQuantitiesNonNegative ==
    \A i \in 1..Len(sheet1) :
        sheet1[i] # EmptyRow =>
            (sheet1[i].QUANTITY.k = "int" /\ sheet1[i].QUANTITY.v >= 0)

\* two sessions validated a Remove of the same row against the same
\* quantity, which their deltas together exceed, and both have written
C10_Witness ==
    \E o1, o2 \in Sessions :
        /\ o1 # o2
        /\ pc[o1] \in PostWrite
        /\ pc[o2] \in PostWrite
        /\ action[o1] = "Remove"
        /\ action[o2] = "Remove"
        /\ Selected(o2, [PRODUCT |-> selected_product_to_update[o1],
                         SIZE |-> selected_size_to_update[o1]])
        /\ current_quantity[o1] = current_quantity[o2]
        /\ quantity[o1] + quantity[o2] > current_quantity[o1]

=============================================================================
